---- MODULE Spec2Model ----
(***************************************************************************)
(* Model of the pomegranate cluster client's secure-channel core:          *)
(*   - DoublingTimer            (src/src/comm/timer.rs)                    *)
(*   - inc_multibyte and AESGCMNonceCounter (src/src/comm/crypto.rs)       *)
(*   - ServerPublicKeyValidator and client_setup_encrypted_channel         *)
(*                              (src/src/comm/crypto.rs)                   *)
(*   - ClusterClient::run / connect_to_cluster (src/src/client.rs)         *)
(* Durations are in milliseconds.  Option<T> is a sequence of length 0     *)
(* (None) or 1 (Some).                                                     *)
(***************************************************************************)
EXTENDS Integers, Sequences, FiniteSets, TLC

VARIABLES
    \* ---- DoublingTimer under test (SpecTimer)
    timer,          \* the DoublingTimer object {flat, init_dur, cur_dur, rem}
    timer_cfg,      \* the arguments new() was called with
    returned,       \* delays returned by next() since new() or the last reset()
    resets,         \* number of reset() calls so far
    \* ---- AESGCMNonceCounter under test (SpecNonce, SpecPeriod)
    nonce,          \* AESGCMNonceCounter.nonce, a byte array
    seed,           \* the init value the counter was constructed with
    incs,           \* number of next() calls so far
    ret,            \* Option: the value the last next() returned
    prev,           \* Option: the counter's bytes before the last next()
    \* ---- ServerPublicKeyValidator and the client handshake (SpecHandshake, Spec)
    key_validator,  \* the ServerPublicKeyValidator object {key: Option<RsaPublicKey>}
    firstAccepted,  \* Option: the key of the first validate() that returned Ok
    last,           \* the last validate() or handshake: operation, candidate, result,
                    \* the validator and firstAccepted as they were before it, and
                    \* of a handshake the pair generated and what was sent
    nops,           \* number of validate() calls and handshake attempts so far
    os_rng,         \* OsRng: the number of values drawn so far
    inits,          \* the initializer pairs generated so far, one per handshake attempt
    \* ---- ClusterClient::run (Spec)
    pc,             \* where run() is: Disconnected, Handshaking, Connected, Backoff
    config,         \* ClusterClientConfig {bypass_pk_check}
    retry_timer,    \* run()'s DoublingTimer
    delays,         \* delays slept since the last successful connection
    presented,      \* Option: public key the server presented on the current connection
    conns,          \* successful connections of this run, counted up to MaxConns
    received,       \* messages received on the current connection
    chan,           \* Option: the channel pair (sender, receiver) run() holds
    open,           \* TcpStreams of run() that are alive
    entered,        \* how run() came to the top of its loop: start, backoff, recv_err
    failed,         \* the channel pairs whose receiver's recv() has returned an error
    \* ---- one AES256GCMMsgSender under test (SpecSender)
    snd,            \* the AES256GCMMsgSender object {key, nonce}
    snd_out,        \* the stream it writes to; holds the frame of the last send
    used,           \* the (key, nonce) pairs its encryptions have used
    sends,          \* number of send calls so far
    reused,         \* whether a send used a (key, nonce) pair that was used before
    \* ---- one LenU64EncapsMsgSender and its paired receiver (SpecFrame)
    wire,           \* the stream between them {bytes, closed}
    rx_buf,         \* the bytes in the receiver's BufReader
    sent_log,       \* the messages send() has written, in order
    delivered,      \* the messages recv() has returned, in order
    got,            \* the last recv(): its Result, and the bytes that had arrived
    cut,            \* bytes that were written and lost when the stream closed
    \* ---- a client and a server on one connection (SpecSession, SpecAttack)
    client,         \* the client: where it is (Wait, Up, Failed), how its handshake
                    \* wait and its handshake ended, and its channel pair (Option)
    server,         \* the server: the same, starting in Start
    server_keypair, \* the server's RsaKeyPair
    c2s,            \* the stream from client to server {bytes, closed}
    s2c,            \* the stream from server to client
    c_sent,         \* the messages the client's sender was given, in order
    s_sent,         \* the messages the server's sender was given, in order
    c_log,          \* the messages the client's receiver returned, in order
    s_log,          \* the messages the server's receiver returned, in order
    c_last,         \* the client's last recv(): its Result, the plaintext, and the
                    \* part of a frame it consumed that was changed in transit
    s_last,         \* the server's last recv()
    taint,          \* Option: where in s2c the byte changed in transit is
    drawn,          \* the nonces the counters of the four ends have handed out to
                    \* encrypt (c_snd, s_snd) and to decrypt (c_rcv, s_rcv), in order
    net             \* what the network did to the frames on their way to the
                    \* client, and the place in the order of arrival where it shows

timerVars == <<timer, timer_cfg, returned, resets>>
nonceVars == <<nonce, seed, incs, ret, prev>>
valVars == <<key_validator, firstAccepted, last, nops, os_rng, inits>>
loopVars == <<pc, config, retry_timer, delays, presented, conns, received, chan, open, entered,
              failed>>
senderVars == <<snd, snd_out, used, sends, reused>>
coreVars == <<timerVars, nonceVars, valVars, loopVars>>
frameVars == <<wire, rx_buf, sent_log, delivered, got, cut>>
sessVars == <<client, server, server_keypair, c2s, s2c, c_sent, s_sent, c_log, s_log,
              c_last, s_last, taint, drawn, net>>
chanVars == <<senderVars, frameVars, sessVars>>
vars == <<coreVars, chanVars>>

None == <<>>
Some(x) == <<x>>

(***************************************************************************)
(* Bounds of the model                                                     *)
(***************************************************************************)
MaxFlat == 3        \* DoublingTimer under test: flat in 0..MaxFlat
MaxCalls == 7       \* next() calls between two resets
MaxResets == 2      \* reset() calls in one behaviour
MaxNonceLen == 2    \* SpecNonce: byte arrays of 1..MaxNonceLen bytes
MaxIncs == 3        \* SpecNonce: next() calls on one counter
PeriodLen == 2      \* SpecPeriod: counters of 1..PeriodLen bytes run a full period
ChanNonceLen == 1   \* bytes of a channel's nonce (12 in the program)
MaxDraws == 12      \* values OsRng hands out before it repeats one (three handshakes)
MaxFrames == 3      \* SpecFrame: messages sent through the codec under test
MaxChanMsgs == 2    \* SpecSession, SpecAttack: messages given to one sender
MaxNetMsgs == 3     \* SpecNet: messages the server sends over the disturbed connection
NumKeys == 3        \* distinct RSA public keys a server may present
MaxOps == 4         \* SpecHandshake: validate() calls and handshake attempts
MaxStreak == 11     \* Spec: consecutive failed attempts (two doublings at flat = 5)
MaxConns == 2       \* Spec: successful connections counted
MaxMsgs == 2        \* Spec: messages received on one connection

\* initial delays the timer under test is built with (the two used by the tests)
InitDurs == {1000, 2500}
\* byte values the multi-byte seeds are built from (0x00, 0x10, 0xDA, 0xFE, 0xFF)
SeedBytes == {0, 16, 218, 254, 255}
\* byte values of the seeds that are run through a full period
PeriodBytes == {0, 218, 255}

(***************************************************************************)
(* Numbers and byte arrays                                                 *)
(***************************************************************************)
U8_MAX == 255

RECURSIVE Pow(_, _)
Pow(b, n) == IF n = 0 THEN 1 ELSE b * Pow(b, n - 1)

\* the big-endian unsigned value of a byte array
be_value(num) ==
    LET val[i \in 0..Len(num)] ==
            IF i = 0 THEN 0 ELSE val[i - 1] * (U8_MAX + 1) + num[i]
    IN  val[Len(num)]

\* the big-endian encoding of v on n bytes; v is below 2^31, so the bytes
\* above the low four are zero
be_bytes(v, n) ==
    [i \in 1..n |->
        IF n - i > 3 THEN 0 ELSE (v \div Pow(U8_MAX + 1, n - i)) % (U8_MAX + 1)]

\* 2^(8n): the number of values of an n-byte array
Modulus(n) == Pow(U8_MAX + 1, n)

\* the concatenation of a sequence of byte arrays
RECURSIVE Concat(_)
Concat(ss) ==
    IF Len(ss) = 0 THEN <<>>
    ELSE Concat(SubSeq(ss, 1, Len(ss) - 1)) \o ss[Len(ss)]

(***************************************************************************)
(* DoublingTimer  (src/src/comm/timer.rs)                                  *)
(***************************************************************************)
DoublingTimer_new(flat, init_dur) ==
    [flat |-> flat, init_dur |-> init_dur, cur_dur |-> init_dur, rem |-> flat]

\* mutant: tests the countdown for zero before decrementing it
DoublingTimer_next_TestBeforeDecrement(t) ==
    LET res == t.cur_dur
        t1  == IF t.flat # 0
               THEN IF t.rem = 0
                    THEN [t EXCEPT !.rem = t.flat, !.cur_dur = t.cur_dur * 2]
                    ELSE [t EXCEPT !.rem = t.rem - 1]
               ELSE t
    IN  [timer |-> t1, res |-> res]

\* mutant: doubles the delay at zero and does not reload the countdown
DoublingTimer_next_NoReload(t) ==
    LET res == t.cur_dur
        t1  == IF t.flat # 0
               THEN LET r == t.rem - 1
                    IN  IF r = 0
                        THEN [t EXCEPT !.rem = r, !.cur_dur = t.cur_dur * 2]
                        ELSE [t EXCEPT !.rem = r]
               ELSE t
    IN  [timer |-> t1, res |-> res]

\* next(): the result is the pair of the updated timer and the returned delay
DoublingTimer_next(t) ==
    LET res == t.cur_dur
        t1  == IF t.flat # 0
               THEN LET r == t.rem - 1
                    IN  IF r = 0
                        THEN [t EXCEPT !.rem = t.flat, !.cur_dur = t.cur_dur * 2]
                        ELSE [t EXCEPT !.rem = r]
               ELSE t
    IN  [timer |-> t1, res |-> res]

\* mutant: restores the delay and leaves the countdown where it was
DoublingTimer_reset_KeepsRem(t) ==
    [t EXCEPT !.cur_dur = t.init_dur]

DoublingTimer_reset(t) ==
    [t EXCEPT !.cur_dur = t.init_dur, !.rem = t.flat]

(***************************************************************************)
(* inc_multibyte and AESGCMNonceCounter  (src/src/comm/crypto.rs)          *)
(***************************************************************************)
\* the loop of inc_multibyte, at byte i (1-based), walking from the right
RECURSIVE inc_from(_, _)
inc_from(num, i) ==
    IF i = 0 THEN num
    ELSE IF num[i] = U8_MAX
         THEN inc_from([num EXCEPT ![i] = 0], i - 1)
         ELSE [num EXCEPT ![i] = num[i] + 1]

\* mutant: increments the right-most byte and drops the carry
inc_multibyte_NoCarry(num) ==
    IF Len(num) = 0 THEN num
    ELSE [num EXCEPT ![Len(num)] = (num[Len(num)] + 1) % (U8_MAX + 1)]

\* mutant: saturates at all-0xFF instead of wrapping to zero
inc_multibyte_Saturating(num) ==
    IF \A i \in 1..Len(num) : num[i] = U8_MAX THEN num ELSE inc_from(num, Len(num))

inc_multibyte(num) == inc_from(num, Len(num))

AESGCMNonceCounter_new(init) == [nonce |-> init]

\* next(): the updated counter and the returned value
AESGCMNonceCounter_next(c) ==
    LET val == c.nonce
    IN  [counter |-> [c EXCEPT !.nonce = inc_multibyte(c.nonce)], val |-> val]

(***************************************************************************)
(* RSA public keys and their PKCS#1 DER form.  A key is one of 1..NumKeys; *)
(* two keys are equal (RsaPublicKey's PartialEq) iff they are the same     *)
(* number.  The DER form of key k is the two bytes <<0x30, k>> (0x30 is    *)
(* the tag every DER public key starts with); other bytes do not decode.   *)
(***************************************************************************)
Keys == 1..NumKeys

DER_SEQUENCE == 48

to_pkcs1_der(key) == <<DER_SEQUENCE, key>>

Malformed == <<0>>

\* Option: the decoded key, None when the bytes are no PKCS#1 public key
from_pkcs1_der(bytes) ==
    IF Len(bytes) = 2 /\ bytes[1] = DER_SEQUENCE /\ bytes[2] \in Keys
    THEN Some(bytes[2]) ELSE None

(***************************************************************************)
(* ServerPublicKeyValidator  (src/src/comm/crypto.rs)                      *)
(***************************************************************************)
\* new() takes no argument and the struct has the one field `key`
ServerPublicKeyValidator_new == [key |-> None]

\* mutant: a stored key does not make a different key fail
ServerPublicKeyValidator_validate_AcceptsAny(v, key) ==
    IF v.key # None
    THEN [validator |-> v, res |-> "Ok"]
    ELSE [validator |-> [v EXCEPT !.key = Some(key)], res |-> "Ok"]

\* mutant: a different key fails, and is stored
ServerPublicKeyValidator_validate_StoresOnMismatch(v, key) ==
    IF v.key # None /\ Some(key) # v.key
    THEN [validator |-> [v EXCEPT !.key = Some(key)], res |-> "ServerPublicKeyChanged"]
    ELSE [validator |-> [v EXCEPT !.key = Some(key)], res |-> "Ok"]

\* mutant: trusts the latest key instead of the first
ServerPublicKeyValidator_validate_TrustsLatest(v, key) ==
    [validator |-> [v EXCEPT !.key = Some(key)], res |-> "Ok"]

\* validate(): the updated validator and the Result
ServerPublicKeyValidator_validate(v, key) ==
    IF v.key # None
    THEN IF Some(key) = v.key
         THEN [validator |-> v, res |-> "Ok"]
         ELSE [validator |-> v, res |-> "ServerPublicKeyChanged"]
    ELSE [validator |-> [v EXCEPT !.key = Some(key)], res |-> "Ok"]

(***************************************************************************)
(* OsRng.  The generator is modelled as a source that does not repeat a    *)
(* value while its supply lasts: the i-th draw is the number i, for        *)
(* i <= MaxDraws.  Once the supply is used up it hands out MaxDraws again  *)
(* and its state MaxDraws + 1 says so; statements about distinct draws are *)
(* made for the states before that.                                        *)
(***************************************************************************)
OsRng_fill_bytes(rng) ==
    [val |-> IF rng < MaxDraws THEN rng + 1 ELSE MaxDraws,
     rng |-> IF rng <= MaxDraws THEN rng + 1 ELSE rng]

Exhausted(rng) == rng > MaxDraws

\* the nonce bytes of a draw: draws are spread from the top of the range
\* downwards, so that counters wrap within a few messages
NonceOfDraw(val) == be_bytes(Modulus(ChanNonceLen) - val, ChanNonceLen)

(***************************************************************************)
(* AES256GCMInitializer, AES256GCMInitializerPair  (src/src/comm/crypto.rs)*)
(* A 32-byte key is one number; a nonce is an array of ChanNonceLen bytes. *)
(***************************************************************************)
\* mutant: the same key and nonce on every call
AES256GCMInitializer_new_rand_Fixed(rng) ==
    [init |-> [key |-> 1, nonce |-> NonceOfDraw(2)], rng |-> rng]

\* new_rand(): the initializer and the generator afterwards
AES256GCMInitializer_new_rand(rng) ==
    LET k == OsRng_fill_bytes(rng)
        n == OsRng_fill_bytes(k.rng)
    IN  [init |-> [key |-> k.val, nonce |-> NonceOfDraw(n.val)], rng |-> n.rng]

AES256GCMInitializerPair_new_rand(rng) ==
    LET c == AES256GCMInitializer_new_rand(rng)
        t == AES256GCMInitializer_new_rand(c.rng)
    IN  [pair |-> [cts |-> c.init, stc |-> t.init], rng |-> t.rng]

\* rkyv::to_bytes of the pair: the fixed layout cts.key, cts.nonce, stc.key, stc.nonce
rkyv_to_bytes(pair) ==
    <<pair.cts.key>> \o pair.cts.nonce \o <<pair.stc.key>> \o pair.stc.nonce

\* rkyv::from_bytes: Option, None when the bytes do not have the layout
rkyv_from_bytes(bytes) ==
    IF Len(bytes) = 2 * (1 + ChanNonceLen)
    THEN Some([cts |-> [key |-> bytes[1],
                        nonce |-> SubSeq(bytes, 2, 1 + ChanNonceLen)],
               stc |-> [key |-> bytes[2 + ChanNonceLen],
                        nonce |-> SubSeq(bytes, 3 + ChanNonceLen, 2 + 2 * ChanNonceLen)]])
    ELSE None

(***************************************************************************)
(* RSA PKCS#1 v1.5 encryption, as an ideal cipher: the encryption of byte  *)
(* b under public key k is the number RsaBase + 256 k + b, which only the  *)
(* private key k turns back into b.  RsaKeyPair k is {private k, public k}.*)
(***************************************************************************)
RsaBase == 1000

RsaKeyPair(k) == [private |-> k, public |-> k]

rsa_encrypt(pub_key, bytes) ==
    [j \in 1..Len(bytes) |-> RsaBase + pub_key * (U8_MAX + 1) + bytes[j]]

\* Option: the plaintext, None when the bytes are no encryption under this key
rsa_decrypt(private, bytes) ==
    IF /\ bytes # <<>>
       /\ \A j \in 1..Len(bytes) :
            /\ bytes[j] >= RsaBase + private * (U8_MAX + 1)
            /\ bytes[j] <= RsaBase + private * (U8_MAX + 1) + U8_MAX
    THEN Some([j \in 1..Len(bytes) |-> bytes[j] - RsaBase - private * (U8_MAX + 1)])
    ELSE None

(***************************************************************************)
(* AES-256-GCM-SIV, as an ideal AEAD: the ciphertext of a message is       *)
(* Len(msg) + TagLen numbers, each of which names the key, the nonce, the  *)
(* message and its position, so that a byte array decrypts under (key,     *)
(* nonce) iff it is, unchanged and whole, the encryption of a message      *)
(* under that key and nonce.  Ciphertext numbers are above every byte.     *)
(***************************************************************************)
\* the messages the peers exchange: "", "H", "Hi"
Plaintexts == << <<>>, <<72>>, <<72, 105>> >>

PlainId(msg) == CHOOSE i \in 1..Len(Plaintexts) : Plaintexts[i] = msg

TagLen == 16
CtBase == 10000
CtStride == 32

aead_encrypt(key, iv, msg) ==
    LET id == ((key * Modulus(Len(iv)) + be_value(iv)) * (Len(Plaintexts) + 1)
                  + PlainId(msg)) * CtStride
    IN  [j \in 1..(Len(msg) + TagLen) |-> CtBase + id + j]

\* Option: the plaintext, None when authentication fails
aead_decrypt(key, iv, ciphertext) ==
    LET ms == {i \in 1..Len(Plaintexts) :
                  ciphertext = aead_encrypt(key, iv, Plaintexts[i])}
    IN  IF ms = {} THEN None ELSE Some(Plaintexts[CHOOSE i \in ms : TRUE])

(***************************************************************************)
(* LenU64EncapsMsgSender / LenU64EncapsMsgReceiver (src/src/comm/encaps.rs)*)
(* A stream is [bytes, closed]: the bytes written and not yet read, and    *)
(* whether the connection is closed.                                       *)
(***************************************************************************)
U64_SIZE == 8

NewStream == [bytes |-> <<>>, closed |-> FALSE]

\* len.to_be_bytes()
u64_to_be_bytes(len) == be_bytes(len, U64_SIZE)

\* mutant: the length goes out as a single byte
LenU64EncapsMsgSender_send_ShortPrefix(stream, msg) ==
    IF stream.closed
    THEN [stream |-> stream, res |-> "Err"]
    ELSE [stream |-> [stream EXCEPT !.bytes = @ \o <<Len(msg)>> \o msg], res |-> "Ok"]

\* send(): the stream afterwards and the Result; write_all fails on a closed
\* connection
LenU64EncapsMsgSender_send(stream, msg) ==
    IF stream.closed
    THEN [stream |-> stream, res |-> "Err"]
    ELSE [stream |-> [stream EXCEPT !.bytes = @ \o u64_to_be_bytes(Len(msg)) \o msg],
          res |-> "Ok"]

\* u64::from_be_bytes(len) <= n, without forming a number beyond TLC's integers
LenAtMost(len, n) ==
    /\ \A i \in 1..(U64_SIZE - 3) : len[i] = 0
    /\ be_value(SubSeq(len, U64_SIZE - 2, U64_SIZE)) <= n

\* mutant: at the end of the stream, what has arrived is returned as the message
LenU64EncapsMsgReceiver_recv_Truncating(avail, closed) ==
    IF Len(avail) < U64_SIZE
    THEN IF closed THEN [kind |-> "Err", msg |-> <<>>, used |-> Len(avail)]
         ELSE [kind |-> "Pending", msg |-> <<>>, used |-> 0]
    ELSE LET len == SubSeq(avail, 1, U64_SIZE)
         IN  IF LenAtMost(len, Len(avail) - U64_SIZE)
             THEN [kind |-> "Ok",
                   msg |-> SubSeq(avail, U64_SIZE + 1, U64_SIZE + be_value(len)),
                   used |-> U64_SIZE + be_value(len)]
             ELSE IF closed
                  THEN [kind |-> "Ok", msg |-> SubSeq(avail, U64_SIZE + 1, Len(avail)),
                        used |-> Len(avail)]
                  ELSE [kind |-> "Pending", msg |-> <<>>, used |-> 0]

\* recv() on the bytes that have arrived (the BufReader's buffer, then the
\* stream): Ok with the message, Err (read_exact met the end of the stream) or
\* Pending (read_exact is still waiting), and the number of bytes consumed
LenU64EncapsMsgReceiver_recv(avail, closed) ==
    IF Len(avail) < U64_SIZE
    THEN IF closed THEN [kind |-> "Err", msg |-> <<>>, used |-> Len(avail)]
         ELSE [kind |-> "Pending", msg |-> <<>>, used |-> 0]
    ELSE LET len == SubSeq(avail, 1, U64_SIZE)
         IN  IF LenAtMost(len, Len(avail) - U64_SIZE)
             THEN [kind |-> "Ok",
                   msg |-> SubSeq(avail, U64_SIZE + 1, U64_SIZE + be_value(len)),
                   used |-> U64_SIZE + be_value(len)]
             ELSE IF closed THEN [kind |-> "Err", msg |-> <<>>, used |-> Len(avail)]
                  ELSE [kind |-> "Pending", msg |-> <<>>, used |-> 0]

\* the stream after its first n bytes were read
Consume(stream, n) == [stream EXCEPT !.bytes = SubSeq(@, n + 1, Len(@))]

(***************************************************************************)
(* AES256GCMMsgSender / AES256GCMMsgReceiver  (src/src/comm/crypto.rs)     *)
(* The cipher is its key; the wrapped codec acts on the stream passed in.  *)
(***************************************************************************)
AES256GCMMsgSender_new(init) ==
    [key |-> init.key, nonce |-> AESGCMNonceCounter_new(init.nonce)]

\* mutant: the nonce counter is read and left where it was
AES256GCMMsgSender_send_SameNonce(sender, stream, msg) ==
    LET n == AESGCMNonceCounter_next(sender.nonce)
        w == LenU64EncapsMsgSender_send(stream, aead_encrypt(sender.key, n.val, msg))
    IN  [sender |-> sender, stream |-> w.stream, res |-> w.res, nonce |-> n.val]

\* send(): the sender and the stream afterwards, the Result and the nonce used
AES256GCMMsgSender_send(sender, stream, msg) ==
    LET n == AESGCMNonceCounter_next(sender.nonce)
        w == LenU64EncapsMsgSender_send(stream, aead_encrypt(sender.key, n.val, msg))
    IN  [sender |-> [sender EXCEPT !.nonce = n.counter],
         stream |-> w.stream, res |-> w.res, nonce |-> n.val]

AES256GCMMsgReceiver_new(init) ==
    [key |-> init.key, nonce |-> AESGCMNonceCounter_new(init.nonce)]

\* mutant: the nonce counter is read and left where it was
AES256GCMMsgReceiver_recv_KeepsNonce(receiver, frame) ==
    IF frame.kind = "Err"
    THEN [receiver |-> receiver, res |-> "IoError", msg |-> None, nonce |-> None]
    ELSE LET n == AESGCMNonceCounter_next(receiver.nonce)
             d == aead_decrypt(receiver.key, n.val, frame.msg)
         IN  [receiver |-> receiver,
              res |-> IF d = None THEN "DecryptionError" ELSE "Ok",
              msg |-> d, nonce |-> Some(n.val)]

\* mutant: a failed decryption puts the nonce back
AES256GCMMsgReceiver_recv_RewindsOnFailure(receiver, frame) ==
    IF frame.kind = "Err"
    THEN [receiver |-> receiver, res |-> "IoError", msg |-> None, nonce |-> None]
    ELSE LET n == AESGCMNonceCounter_next(receiver.nonce)
             d == aead_decrypt(receiver.key, n.val, frame.msg)
         IN  [receiver |-> IF d = None THEN receiver
                           ELSE [receiver EXCEPT !.nonce = n.counter],
              res |-> IF d = None THEN "DecryptionError" ELSE "Ok",
              msg |-> d, nonce |-> Some(n.val)]

\* mutant: the nonce is drawn before the codec's recv() is awaited
AES256GCMMsgReceiver_recv_NonceFirst(receiver, frame) ==
    LET n == AESGCMNonceCounter_next(receiver.nonce)
    IN  IF frame.kind = "Err"
        THEN [receiver |-> [receiver EXCEPT !.nonce = n.counter],
              res |-> "IoError", msg |-> None, nonce |-> Some(n.val)]
        ELSE LET d == aead_decrypt(receiver.key, n.val, frame.msg)
             IN  [receiver |-> [receiver EXCEPT !.nonce = n.counter],
                  res |-> IF d = None THEN "DecryptionError" ELSE "Ok",
                  msg |-> d, nonce |-> Some(n.val)]

\* recv() once the codec's recv() has ended with `frame` (Ok or Err): the
\* receiver afterwards, the Result, the plaintext (Option) and the nonce
\* drawn from the counter (Option)
AES256GCMMsgReceiver_recv(receiver, frame) ==
    IF frame.kind = "Err"
    THEN [receiver |-> receiver, res |-> "IoError", msg |-> None, nonce |-> None]
    ELSE LET n == AESGCMNonceCounter_next(receiver.nonce)
             d == aead_decrypt(receiver.key, n.val, frame.msg)
         IN  [receiver |-> [receiver EXCEPT !.nonce = n.counter],
              res |-> IF d = None THEN "DecryptionError" ELSE "Ok",
              msg |-> d, nonce |-> Some(n.val)]

(***************************************************************************)
(* client_setup_encrypted_channel  (src/src/comm/crypto.rs)                *)
(* rng:      the state of OsRng                                            *)
(* recv_res: what time::timeout(timeout, receiver.recv()) ends with:       *)
(*   [kind |-> "Elapsed"], [kind |-> "Err"] or [kind |-> "Ok", msg |-> b]  *)
(* enc_ok:   whether serialising and RSA-encrypting the pair succeeds      *)
(*   (encryption fails on a key too short for the pair)                    *)
(* out:      the stream the sender writes to                               *)
(* The result: res (Ok or the error), the validator, the generator and the *)
(* stream afterwards, the pair generated, the key that was decoded         *)
(* (Option), the key validate() accepted (Option), whether a frame was     *)
(* handed to the sender, that frame (Option) and the channel pair (Option).*)
(***************************************************************************)
\* mutant: the initializer frame goes out before the key is looked at
client_setup_encrypted_channel_SendsFirst(validator, rng, recv_res, enc_ok, out) ==
    LET gen      == AES256GCMInitializerPair_new_rand(rng)
        sym_init == gen.pair
        enc      == rsa_encrypt(1, rkyv_to_bytes(sym_init))
        wr       == LenU64EncapsMsgSender_send(out, enc)
        fail(r, v, k) ==
            [res |-> r, validator |-> v, rng |-> gen.rng, out |-> wr.stream,
             sym_init |-> sym_init, pub_key |-> k, accepted |-> None,
             sent |-> TRUE, frame |-> Some(enc), chan |-> None]
    IN  IF recv_res.kind = "Elapsed" THEN fail("Timeout", validator, None)
        ELSE IF recv_res.kind = "Err" THEN fail("IoError", validator, None)
        ELSE LET pub_key == from_pkcs1_der(recv_res.msg)
             IN  IF pub_key = None THEN fail("InvalidData", validator, None)
                 ELSE LET chk == ServerPublicKeyValidator_validate(validator, pub_key[1])
                      IN  IF chk.res # "Ok"
                          THEN fail(chk.res, chk.validator, pub_key)
                          ELSE [res |-> IF wr.res = "Ok" THEN "Ok" ELSE "IoError",
                                validator |-> chk.validator, rng |-> gen.rng,
                                out |-> wr.stream, sym_init |-> sym_init,
                                pub_key |-> pub_key, accepted |-> pub_key,
                                sent |-> TRUE, frame |-> Some(enc),
                                chan |-> IF wr.res = "Ok"
                                         THEN Some([sender |-> AES256GCMMsgSender_new(sym_init.cts),
                                                    receiver |-> AES256GCMMsgReceiver_new(sym_init.stc)])
                                         ELSE None]

client_setup_encrypted_channel(validator, rng, recv_res, enc_ok, out) ==
    LET gen      == AES256GCMInitializerPair_new_rand(rng)
        sym_init == gen.pair
        fail(r, v, k) ==
            [res |-> r, validator |-> v, rng |-> gen.rng, out |-> out,
             sym_init |-> sym_init, pub_key |-> k, accepted |-> None,
             sent |-> FALSE, frame |-> None, chan |-> None]
    IN  IF recv_res.kind = "Elapsed" THEN fail("Timeout", validator, None)
        ELSE IF recv_res.kind = "Err" THEN fail("IoError", validator, None)
        ELSE LET pub_key == from_pkcs1_der(recv_res.msg)
             IN  IF pub_key = None THEN fail("InvalidData", validator, None)
                 ELSE LET chk == ServerPublicKeyValidator_validate(validator, pub_key[1])
                      IN  IF chk.res # "Ok"
                          THEN fail(chk.res, chk.validator, pub_key)
                          ELSE IF ~enc_ok
                          THEN [fail("InvalidData", chk.validator, pub_key)
                                    EXCEPT !.accepted = pub_key]
                          ELSE LET enc == rsa_encrypt(pub_key[1], rkyv_to_bytes(sym_init))
                                   wr  == LenU64EncapsMsgSender_send(out, enc)
                               IN  [res |-> IF wr.res = "Ok" THEN "Ok" ELSE "IoError",
                                    validator |-> chk.validator, rng |-> gen.rng,
                                    out |-> wr.stream, sym_init |-> sym_init,
                                    pub_key |-> pub_key, accepted |-> pub_key,
                                    sent |-> TRUE, frame |-> Some(enc),
                                    chan |-> IF wr.res = "Ok"
                                             THEN Some([sender |-> AES256GCMMsgSender_new(sym_init.cts),
                                                        receiver |-> AES256GCMMsgReceiver_new(sym_init.stc)])
                                             ELSE None]

\* the outcomes of waiting for the server's public-key frame
RecvOutcomes ==
    {[kind |-> "Elapsed"], [kind |-> "Err"]}
        \cup {[kind |-> "Ok", msg |-> b] : b \in {to_pkcs1_der(k) : k \in Keys} \cup {Malformed}}

\* the outcomes of serialising, encrypting and sending the initializer pair
SendOutcomes == {"Ok", "EncryptErr", "Err"}

\* the stream a send outcome stands for
OutStream(send_res) == [bytes |-> <<>>, closed |-> send_res = "Err"]

(***************************************************************************)
(* server_setup_encrypted_channel  (src/src/comm/crypto.rs), in its two    *)
(* steps: up to the wait for the client's frame, and from the end of it.   *)
(***************************************************************************)
\* the public key goes out: the stream afterwards and the Result
server_setup_send_key(keypair, out) ==
    LenU64EncapsMsgSender_send(out, to_pkcs1_der(keypair.public))

\* mutant: the deadline passing is reported as an error of the stream
server_setup_recv_init_ElapsedAsIoError(keypair, recv_res) ==
    IF recv_res.kind \in {"Elapsed", "Err"} THEN [res |-> "IoError", chan |-> None]
    ELSE LET dec == rsa_decrypt(keypair.private, recv_res.msg)
         IN  IF dec = None THEN [res |-> "InvalidData", chan |-> None]
             ELSE LET sym_init == rkyv_from_bytes(dec[1])
                  IN  IF sym_init = None THEN [res |-> "InvalidData", chan |-> None]
                      ELSE [res |-> "Ok",
                            chan |-> Some([sender |-> AES256GCMMsgSender_new(sym_init[1].stc),
                                           receiver |-> AES256GCMMsgReceiver_new(sym_init[1].cts)])]

\* mutant: the server builds its sender on cts and its receiver on stc
server_setup_recv_init_SameDirections(keypair, recv_res) ==
    IF recv_res.kind = "Elapsed" THEN [res |-> "Timeout", chan |-> None]
    ELSE IF recv_res.kind = "Err" THEN [res |-> "IoError", chan |-> None]
    ELSE LET dec == rsa_decrypt(keypair.private, recv_res.msg)
         IN  IF dec = None THEN [res |-> "InvalidData", chan |-> None]
             ELSE LET sym_init == rkyv_from_bytes(dec[1])
                  IN  IF sym_init = None THEN [res |-> "InvalidData", chan |-> None]
                      ELSE [res |-> "Ok",
                            chan |-> Some([sender |-> AES256GCMMsgSender_new(sym_init[1].cts),
                                           receiver |-> AES256GCMMsgReceiver_new(sym_init[1].stc)])]

\* the wait has ended with recv_res: res and the channel pair (Option)
server_setup_recv_init(keypair, recv_res) ==
    IF recv_res.kind = "Elapsed" THEN [res |-> "Timeout", chan |-> None]
    ELSE IF recv_res.kind = "Err" THEN [res |-> "IoError", chan |-> None]
    ELSE LET dec == rsa_decrypt(keypair.private, recv_res.msg)
         IN  IF dec = None THEN [res |-> "InvalidData", chan |-> None]
             ELSE LET sym_init == rkyv_from_bytes(dec[1])
                  IN  IF sym_init = None THEN [res |-> "InvalidData", chan |-> None]
                      ELSE [res |-> "Ok",
                            chan |-> Some([sender |-> AES256GCMMsgSender_new(sym_init[1].stc),
                                           receiver |-> AES256GCMMsgReceiver_new(sym_init[1].cts)])]

(***************************************************************************)
(* ClusterClient::run  (src/src/client.rs)                                 *)
(***************************************************************************)
\* DoublingTimer::new(5, Duration::from_secs(1), ..): flat count and initial delay.
\* timer.rs's new() has the two parameters and no cap on the delay.
RetryFlat == 5
RetryInitMs == 1000

\* the Err arm of run()'s match: the delay to sleep and the timer afterwards
run_on_err(t) == DoublingTimer_next(t)

\* mutant: the Ok arm without the reset
run_on_ok_NoReset(t) == t

\* the Ok arm of run()'s match: the timer after `retry_timer.reset()`
run_on_ok(t) == DoublingTimer_reset(t)

(***************************************************************************)
(* Helpers of the properties                                               *)
(***************************************************************************)
\* byte arrays of exactly n bytes over the byte set B
RECURSIVE ArraysOf(_, _)
ArraysOf(B, n) ==
    IF n = 0 THEN {<<>>}
    ELSE {Append(a, b) : a \in ArraysOf(B, n - 1), b \in B}

\* the delays a freshly constructed timer returns on its first n calls
RECURSIVE FreshRun(_, _, _)
FreshRun(t, n, acc) ==
    IF n = 0 THEN acc
    ELSE LET r == DoublingTimer_next(t)
         IN  FreshRun(r.timer, n - 1, Append(acc, r.res))

\* the messages sent through the codec under test: the empty message, one
\* byte, and eight bytes that read as the length prefix of a one-byte message
FrameMsgs == << <<>>, <<7>>, <<0, 0, 0, 0, 0, 0, 0, 1>> >>

\* initial nonces of the sender under test: the arrays over 0x00, 0xDA, 0xFF
ChanSeeds == ArraysOf({0, 218, 255}, ChanNonceLen)

FreshDelays(flat, init_dur, n) == FreshRun(DoublingTimer_new(flat, init_dur), n, <<>>)

(***************************************************************************)
(* Initial states of the parts; a specification starts one part and leaves *)
(* the others idle.                                                        *)
(***************************************************************************)
TimerIdle ==
    /\ timer = DoublingTimer_new(0, 0)
    /\ timer_cfg = [flat |-> 0, init_dur |-> 0]
    /\ returned = <<>>
    /\ resets = 0

TimerInit ==
    \E flat \in 0..MaxFlat, init_dur \in InitDurs :
        /\ timer = DoublingTimer_new(flat, init_dur)
        /\ timer_cfg = [flat |-> flat, init_dur |-> init_dur]
        /\ returned = <<>>
        /\ resets = 0

NonceIdle ==
    /\ nonce = AESGCMNonceCounter_new(<<0>>)
    /\ seed = <<0>>
    /\ incs = 0
    /\ ret = None
    /\ prev = None

NonceStart(init) ==
    /\ nonce = AESGCMNonceCounter_new(init)
    /\ seed = init
    /\ incs = 0
    /\ ret = None
    /\ prev = None

NoOp == [op |-> "none", cand |-> None, res |-> "none",
         before |-> ServerPublicKeyValidator_new, fa_before |-> None,
         accepted |-> None, sym_init |-> None, sent |-> FALSE, frame |-> None,
         out |-> NewStream]

ValInit ==
    /\ key_validator = ServerPublicKeyValidator_new
    /\ firstAccepted = None
    /\ last = NoOp
    /\ nops = 0
    /\ os_rng = 0
    /\ inits = <<>>

LoopIdle ==
    /\ pc = "Idle"
    /\ config = [bypass_pk_check |-> FALSE]
    /\ retry_timer = DoublingTimer_new(RetryFlat, RetryInitMs)
    /\ delays = <<>>
    /\ presented = None
    /\ conns = 0
    /\ received = 0
    /\ chan = None
    /\ open = 0
    /\ entered = "start"
    /\ failed = {}

\* run() up to its loop: the validator and the timer are built
LoopInit ==
    /\ pc = "Disconnected"
    /\ config \in [bypass_pk_check : BOOLEAN]
    /\ retry_timer = DoublingTimer_new(RetryFlat, RetryInitMs)
    /\ delays = <<>>
    /\ presented = None
    /\ conns = 0
    /\ received = 0
    /\ chan = None
    /\ open = 0
    /\ entered = "start"
    /\ failed = {}

NoRecv == [kind |-> "none", msg |-> <<>>, avail |-> <<>>]

\* a codec pair over a fresh stream; an idle pair differs by its closed stream
FrameInit ==
    /\ wire = NewStream
    /\ rx_buf = <<>>
    /\ sent_log = <<>>
    /\ delivered = <<>>
    /\ got = NoRecv
    /\ cut = 0

FrameIdle ==
    /\ wire = [NewStream EXCEPT !.closed = TRUE]
    /\ rx_buf = <<>>
    /\ sent_log = <<>>
    /\ delivered = <<>>
    /\ got = NoRecv
    /\ cut = 0

Party(at) == [pc |-> at, waited |-> "none", res |-> "none", chan |-> None]

NoChanRecv == [res |-> "none", msg |-> None, changed |-> "none", nonce |-> None,
               frame |-> <<>>]

NoDraws == [c_snd |-> <<>>, c_rcv |-> <<>>, s_snd |-> <<>>, s_rcv |-> <<>>]

NoDisturbance == [kind |-> "none", at |-> 0]

\* TcpStream::connect and accept have returned: the server is about to run
\* server_setup_encrypted_channel, the client is in the wait of
\* client_setup_encrypted_channel
SessInit ==
    /\ client = Party("Wait")
    /\ server = Party("Start")
    /\ server_keypair \in {RsaKeyPair(k) : k \in Keys}
    /\ c2s = NewStream
    /\ s2c = NewStream
    /\ c_sent = <<>>
    /\ s_sent = <<>>
    /\ c_log = <<>>
    /\ s_log = <<>>
    /\ c_last = NoChanRecv
    /\ s_last = NoChanRecv
    /\ taint = None
    /\ drawn = NoDraws
    /\ net = NoDisturbance

SessIdle ==
    /\ client = Party("Idle")
    /\ server = Party("Idle")
    /\ server_keypair = RsaKeyPair(1)
    /\ c2s = NewStream
    /\ s2c = NewStream
    /\ c_sent = <<>>
    /\ s_sent = <<>>
    /\ c_log = <<>>
    /\ s_log = <<>>
    /\ c_last = NoChanRecv
    /\ s_last = NoChanRecv
    /\ taint = None
    /\ drawn = NoDraws
    /\ net = NoDisturbance

SenderIdle ==
    /\ snd = AES256GCMMsgSender_new([key |-> 0, nonce |-> <<0>>])
    /\ snd_out = NewStream
    /\ used = {}
    /\ sends = 0
    /\ reused = FALSE

\* a sender built on an initializer with any of the keys and a nonce in ChanSeeds
SenderInit ==
    \E init \in [key : Keys, nonce : ChanSeeds] :
        /\ snd = AES256GCMMsgSender_new(init)
        /\ snd_out = NewStream
        /\ used = {}
        /\ sends = 0
        /\ reused = FALSE

\* all one-byte arrays, and the longer arrays over the byte set B
Seeds(B, maxlen) ==
    ArraysOf(0..U8_MAX, 1) \cup UNION {ArraysOf(B, n) : n \in 2..maxlen}

(***************************************************************************)
(* Actions: DoublingTimer                                                  *)
(***************************************************************************)
TimerNext ==
    /\ Len(returned) < MaxCalls
    /\ LET r == DoublingTimer_next(timer)
       IN  /\ timer' = r.timer
           /\ returned' = Append(returned, r.res)
    /\ UNCHANGED <<timer_cfg, resets, nonceVars, valVars, loopVars, chanVars>>

TimerReset ==
    /\ resets < MaxResets
    /\ timer' = DoublingTimer_reset(timer)
    /\ returned' = <<>>
    /\ resets' = resets + 1
    /\ UNCHANGED <<timer_cfg, nonceVars, valVars, loopVars, chanVars>>

(***************************************************************************)
(* Actions: AESGCMNonceCounter                                             *)
(***************************************************************************)
NonceNext(limit) ==
    /\ incs < limit
    /\ LET r == AESGCMNonceCounter_next(nonce)
       IN  /\ nonce' = r.counter
           /\ ret' = Some(r.val)
    /\ prev' = Some(nonce.nonce)
    /\ incs' = incs + 1
    /\ UNCHANGED <<seed, timerVars, valVars, loopVars, chanVars>>

NonceNextBounded == NonceNext(MaxIncs)

\* one full period of the counter: 2^(8n) calls
NonceNextPeriod == NonceNext(Modulus(Len(seed)))

(***************************************************************************)
(* Actions: AES256GCMMsgSender                                             *)
(***************************************************************************)
\* one more send than the counter has values
MaxSends == Modulus(ChanNonceLen) + 1

\* send(msg) on the sender under test, to a stream that held nothing
SenderSend(msg) ==
    /\ sends < MaxSends
    /\ LET r == AES256GCMMsgSender_send(snd, NewStream, msg)
       IN  /\ snd' = r.sender
           /\ snd_out' = r.stream
           /\ used' = used \cup {<<snd.key, r.nonce>>}
           /\ reused' = (reused \/ <<snd.key, r.nonce>> \in used)
    /\ sends' = sends + 1
    /\ UNCHANGED <<coreVars, frameVars, sessVars>>

(***************************************************************************)
(* Actions: LenU64EncapsMsgSender and LenU64EncapsMsgReceiver              *)
(***************************************************************************)
\* send(msg)
FrameSend(msg) ==
    /\ Len(sent_log) < MaxFrames
    /\ LET r == LenU64EncapsMsgSender_send(wire, msg)
       IN  /\ wire' = r.stream
           /\ sent_log' = IF r.res = "Ok" THEN Append(sent_log, msg) ELSE sent_log
    /\ UNCHANGED <<rx_buf, delivered, got, cut, coreVars, senderVars, sessVars>>

\* a recv() in progress finds less than a frame in the BufReader, which takes
\* what has arrived so far, the first n bytes of the stream, into its buffer
BufFill(n) ==
    /\ got.kind # "Err"
    /\ LenU64EncapsMsgReceiver_recv(rx_buf, FALSE).kind = "Pending"
    /\ rx_buf' = rx_buf \o SubSeq(wire.bytes, 1, n)
    /\ wire' = Consume(wire, n)
    /\ UNCHANGED <<sent_log, delivered, got, cut, coreVars, senderVars, sessVars>>

\* recv() returns, on the bytes of the buffer and then of the stream
FrameRecv ==
    /\ got.kind # "Err"
    /\ LET avail == rx_buf \o wire.bytes
           r     == LenU64EncapsMsgReceiver_recv(avail, wire.closed)
       IN  /\ r.kind # "Pending"
           /\ rx_buf' = SubSeq(rx_buf, r.used + 1, Len(rx_buf))
           /\ wire' = Consume(wire, IF r.used > Len(rx_buf) THEN r.used - Len(rx_buf) ELSE 0)
           /\ delivered' = IF r.kind = "Ok" THEN Append(delivered, r.msg) ELSE delivered
           /\ got' = [kind |-> r.kind, msg |-> r.msg, avail |-> avail]
    /\ UNCHANGED <<sent_log, cut, coreVars, senderVars, sessVars>>

\* the connection closes; the last k bytes written are lost with it
FrameClose(k) ==
    /\ ~wire.closed
    /\ wire' = [bytes |-> SubSeq(wire.bytes, 1, Len(wire.bytes) - k), closed |-> TRUE]
    /\ cut' = k
    /\ UNCHANGED <<rx_buf, sent_log, delivered, got, coreVars, senderVars, sessVars>>

(***************************************************************************)
(* Actions: a client and a server on one connection.  The steps of a       *)
(* handshake end at its awaits; a party whose handshake fails drops its    *)
(* halves of the connection, which closes it.                              *)
(***************************************************************************)
\* the stream after its socket was dropped
Dropped(stream) == [stream EXCEPT !.closed = TRUE]

\* time::timeout(timeout, receiver.recv()) on what has arrived: the frame, the
\* error, or Elapsed when the deadline passes and recv() is still waiting
TimedRecv(stream) ==
    LET f == LenU64EncapsMsgReceiver_recv(stream.bytes, stream.closed)
    IN  [f EXCEPT !.kind = IF @ = "Pending" THEN "Elapsed" ELSE @]

\* server_setup_encrypted_channel up to its wait: the public key goes out
ServerStart ==
    /\ server.pc = "Start"
    /\ LET r == server_setup_send_key(server_keypair, s2c)
       IN  IF r.res = "Ok"
           THEN /\ server' = [server EXCEPT !.pc = "Wait"]
                /\ s2c' = r.stream
                /\ c2s' = c2s
           ELSE /\ server' = [server EXCEPT !.pc = "Failed", !.res = "IoError"]
                /\ s2c' = Dropped(r.stream)
                /\ c2s' = Dropped(c2s)
    /\ UNCHANGED <<client, server_keypair, c_sent, s_sent, c_log, s_log, c_last, s_last,
                   taint, drawn, net, coreVars, senderVars, frameVars>>

\* the client's wait for the public key ends; client_setup_encrypted_channel
\* runs to its end
ClientWaitEnds ==
    /\ client.pc = "Wait"
    /\ LET w == TimedRecv(s2c)
           h == client_setup_encrypted_channel(ServerPublicKeyValidator_new, 0, w, TRUE, c2s)
       IN  /\ client' = [pc |-> IF h.res = "Ok" THEN "Up" ELSE "Failed",
                         waited |-> w.kind, res |-> h.res, chan |-> h.chan]
           /\ c2s' = IF h.res = "Ok" THEN h.out ELSE Dropped(h.out)
           /\ s2c' = IF h.res = "Ok" THEN Consume(s2c, w.used)
                     ELSE Dropped(Consume(s2c, w.used))
    /\ UNCHANGED <<server, server_keypair, c_sent, s_sent, c_log, s_log, c_last, s_last,
                   taint, drawn, net, coreVars, senderVars, frameVars>>

\* the server's wait for the initializer pair ends;
\* server_setup_encrypted_channel runs to its end
ServerWaitEnds ==
    /\ server.pc = "Wait"
    /\ LET w == TimedRecv(c2s)
           h == server_setup_recv_init(server_keypair, w)
       IN  /\ server' = [pc |-> IF h.res = "Ok" THEN "Up" ELSE "Failed",
                         waited |-> w.kind, res |-> h.res, chan |-> h.chan]
           /\ c2s' = IF h.res = "Ok" THEN Consume(c2s, w.used)
                     ELSE Dropped(Consume(c2s, w.used))
           /\ s2c' = IF h.res = "Ok" THEN s2c ELSE Dropped(s2c)
    /\ UNCHANGED <<client, server_keypair, c_sent, s_sent, c_log, s_log, c_last, s_last,
                   taint, drawn, net, coreVars, senderVars, frameVars>>

\* the client's sender.send(msg)
ClientSend(msg) ==
    /\ client.pc = "Up"
    /\ Len(drawn.c_snd) < MaxChanMsgs
    /\ LET r == AES256GCMMsgSender_send(client.chan[1].sender, c2s, msg)
       IN  /\ client' = [client EXCEPT !.chan = Some([@[1] EXCEPT !.sender = r.sender])]
           /\ c2s' = r.stream
           /\ c_sent' = IF r.res = "Ok" THEN Append(c_sent, msg) ELSE c_sent
           /\ drawn' = [drawn EXCEPT !.c_snd = Append(@, r.nonce)]
    /\ UNCHANGED <<server, server_keypair, s2c, s_sent, c_log, s_log, c_last, s_last,
                   taint, net, coreVars, senderVars, frameVars>>

\* the server's sender.send(msg), the limit-th at most
ServerSendUpTo(msg, limit) ==
    /\ server.pc = "Up"
    /\ Len(drawn.s_snd) < limit
    /\ LET r == AES256GCMMsgSender_send(server.chan[1].sender, s2c, msg)
       IN  /\ server' = [server EXCEPT !.chan = Some([@[1] EXCEPT !.sender = r.sender])]
           /\ s2c' = r.stream
           /\ s_sent' = IF r.res = "Ok" THEN Append(s_sent, msg) ELSE s_sent
           /\ drawn' = [drawn EXCEPT !.s_snd = Append(@, r.nonce)]
    /\ UNCHANGED <<client, server_keypair, c2s, c_sent, c_log, s_log, c_last, s_last,
                   taint, net, coreVars, senderVars, frameVars>>

ServerSend(msg) == ServerSendUpTo(msg, MaxChanMsgs)

ServerSendNet(msg) == ServerSendUpTo(msg, MaxNetMsgs)

\* the frames a stream of whole frames holds, prefix and payload each
RECURSIVE SplitFrames(_)
SplitFrames(bytes) ==
    IF Len(bytes) < U64_SIZE THEN <<>>
    ELSE LET n == U64_SIZE + be_value(SubSeq(bytes, 1, U64_SIZE))
         IN  <<SubSeq(bytes, 1, n)>> \o SplitFrames(SubSeq(bytes, n + 1, Len(bytes)))

\* the network does `kind` to the frames on their way to the client, which
\* become `frames`; the first frame out of place is the at-th of those ahead
Disturb(kind, frames, at) ==
    /\ client.pc = "Up"
    /\ net.kind = "none"
    /\ s2c' = [s2c EXCEPT !.bytes = Concat(frames)]
    /\ net' = [kind |-> kind, at |-> Len(drawn.c_rcv) + at]
    /\ UNCHANGED <<client, server, server_keypair, c2s, c_sent, s_sent, c_log, s_log,
                   c_last, s_last, taint, drawn, coreVars, senderVars, frameVars>>

\* the j-th frame on its way to the client is lost
NetLoses(j) ==
    LET fs == SplitFrames(s2c.bytes)
    IN  Disturb("loss", SubSeq(fs, 1, j - 1) \o SubSeq(fs, j + 1, Len(fs)), j)

\* the j-th frame on its way to the client arrives twice
NetDuplicates(j) ==
    LET fs == SplitFrames(s2c.bytes)
    IN  Disturb("dup", SubSeq(fs, 1, j) \o SubSeq(fs, j, Len(fs)), j + 1)

\* the j-th frame on its way to the client and the one after it change places
NetSwaps(j) ==
    LET fs == SplitFrames(s2c.bytes)
    IN  Disturb("swap", SubSeq(fs, 1, j - 1) \o <<fs[j + 1], fs[j]>>
                            \o SubSeq(fs, j + 2, Len(fs)), j)

\* the client's receiver.recv() returns
ClientRecv ==
    /\ client.pc = "Up"
    /\ LET f   == LenU64EncapsMsgReceiver_recv(s2c.bytes, s2c.closed)
           r   == AES256GCMMsgReceiver_recv(client.chan[1].receiver, f)
           hit == taint # None /\ taint[1].pos >= 1 /\ taint[1].pos <= f.used
       IN  /\ f.kind # "Pending"
           /\ client' = [client EXCEPT !.chan = Some([@[1] EXCEPT !.receiver = r.receiver])]
           /\ s2c' = Consume(s2c, f.used)
           /\ c_last' = [res |-> r.res, msg |-> r.msg,
                         changed |-> IF hit THEN taint[1].part ELSE "none",
                         nonce |-> r.nonce, frame |-> f.msg]
           /\ c_log' = IF r.res = "Ok" THEN Append(c_log, r.msg[1]) ELSE c_log
           /\ drawn' = [drawn EXCEPT !.c_rcv = @ \o r.nonce]
           /\ taint' = IF taint = None THEN None
                       ELSE IF hit \/ taint[1].pos = 0
                       THEN Some([pos |-> 0, part |-> "consumed"])
                       ELSE Some([taint[1] EXCEPT !.pos = @ - f.used])
    /\ UNCHANGED <<server, server_keypair, c2s, c_sent, s_sent, s_log, s_last, net,
                   coreVars, senderVars, frameVars>>

\* the server's receiver.recv() returns
ServerRecv ==
    /\ server.pc = "Up"
    /\ LET f == LenU64EncapsMsgReceiver_recv(c2s.bytes, c2s.closed)
           r == AES256GCMMsgReceiver_recv(server.chan[1].receiver, f)
       IN  /\ f.kind # "Pending"
           /\ server' = [server EXCEPT !.chan = Some([@[1] EXCEPT !.receiver = r.receiver])]
           /\ c2s' = Consume(c2s, f.used)
           /\ s_last' = [res |-> r.res, msg |-> r.msg, changed |-> "none",
                         nonce |-> r.nonce, frame |-> f.msg]
           /\ s_log' = IF r.res = "Ok" THEN Append(s_log, r.msg[1]) ELSE s_log
           /\ drawn' = [drawn EXCEPT !.s_rcv = @ \o r.nonce]
    /\ UNCHANGED <<client, server_keypair, s2c, c_sent, s_sent, c_log, c_last,
                   taint, net, coreVars, senderVars, frameVars>>

\* the part of its frame the byte at pos is in, in a stream of whole frames
RECURSIVE FramePart(_, _)
FramePart(bytes, pos) ==
    LET len == be_value(SubSeq(bytes, 1, U64_SIZE))
    IN  IF pos <= U64_SIZE THEN "prefix"
        ELSE IF pos <= U64_SIZE + len THEN "payload"
        ELSE FramePart(SubSeq(bytes, U64_SIZE + len + 1, Len(bytes)), pos - U64_SIZE - len)

\* the values a byte is changed to in transit
TamperVals(old) == {0, U8_MAX, old - 1, old + 1} \ {old, -1}

\* one byte of a frame on its way to the client is changed
Tamper(pos, val) ==
    /\ client.pc = "Up"
    /\ server.pc \in {"Up", "Closed"}
    /\ taint = None
    /\ s2c' = [s2c EXCEPT !.bytes[pos] = val]
    /\ taint' = Some([pos |-> pos, part |-> FramePart(s2c.bytes, pos)])
    /\ UNCHANGED <<client, server, server_keypair, c2s, c_sent, s_sent, c_log, s_log,
                   c_last, s_last, drawn, net, coreVars, senderVars, frameVars>>

\* the server is done and drops its channel pair: the connection closes, what
\* was written still arrives
ServerCloses ==
    /\ server.pc = "Up"
    /\ server' = [server EXCEPT !.pc = "Closed", !.chan = None]
    /\ s2c' = Dropped(s2c)
    /\ c2s' = Dropped(c2s)
    /\ UNCHANGED <<client, server_keypair, c_sent, s_sent, c_log, s_log, c_last, s_last,
                   taint, drawn, net, coreVars, senderVars, frameVars>>

(***************************************************************************)
(* Actions: ServerPublicKeyValidator and the client handshake              *)
(***************************************************************************)
\* the first key a validate() accepted, once there is one
FirstAccepted(fa, accepted) == IF fa = None THEN accepted ELSE fa

\* a caller validates key k
Validate(k) ==
    /\ nops < MaxOps
    /\ LET r == ServerPublicKeyValidator_validate(key_validator, k)
       IN  /\ key_validator' = r.validator
           /\ firstAccepted' =
                  FirstAccepted(firstAccepted, IF r.res = "Ok" THEN Some(k) ELSE None)
           /\ last' = [NoOp EXCEPT !.op = "validate", !.cand = Some(k), !.res = r.res,
                                   !.before = key_validator, !.fa_before = firstAccepted,
                                   !.accepted = IF r.res = "Ok" THEN Some(k) ELSE None]
    /\ nops' = nops + 1
    /\ UNCHANGED <<os_rng, inits, timerVars, nonceVars, loopVars, chanVars>>

\* client_setup_encrypted_channel on a connection where the wait ends with
\* recv_res and serialising, encrypting and sending with send_res
Attempt(recv_res, send_res) ==
    client_setup_encrypted_channel(key_validator, os_rng, recv_res,
                                   send_res # "EncryptErr", OutStream(send_res))

\* what a handshake attempt that ended with r leaves in the validator, the
\* generator and the record of the last operation
Attempted(r) ==
    /\ key_validator' = r.validator
    /\ firstAccepted' = FirstAccepted(firstAccepted, r.accepted)
    /\ os_rng' = r.rng
    /\ inits' = IF Exhausted(r.rng) THEN inits ELSE Append(inits, r.sym_init)
    /\ last' = [op |-> "handshake", cand |-> r.pub_key, res |-> r.res,
                before |-> key_validator, fa_before |-> firstAccepted,
                accepted |-> r.accepted, sym_init |-> Some(r.sym_init),
                sent |-> r.sent, frame |-> r.frame, out |-> r.out]

\* one client handshake attempt against the validator
ClientHandshake(recv_res, send_res) ==
    /\ nops < MaxOps
    /\ Attempted(Attempt(recv_res, send_res))
    /\ nops' = nops + 1
    /\ UNCHANGED <<timerVars, nonceVars, loopVars, chanVars>>

(***************************************************************************)
(* Actions: ClusterClient::run.  run() is one flow; its steps end at the   *)
(* awaits: connecting, the handshake, the backoff sleep, receiver.recv().  *)
(***************************************************************************)
\* mutant: the Err arm hands the error to run()'s caller
Fail_ReturnsError ==
    /\ pc' = "Returned"
    /\ chan' = None
    /\ UNCHANGED <<retry_timer, delays>>

\* the Err arm: next delay from the timer, then sleep
Fail ==
    /\ Len(delays) < MaxStreak
    /\ LET r == run_on_err(retry_timer)
       IN  /\ retry_timer' = r.timer
           /\ delays' = Append(delays, r.res)
    /\ pc' = "Backoff"
    /\ chan' = None

\* TcpStream::connect fails: connect_to_cluster returns Err
ConnectFail ==
    /\ pc = "Disconnected"
    /\ Fail
    /\ UNCHANGED <<presented, conns, received, open, entered, failed, config,
                   valVars, timerVars, nonceVars, chanVars>>

\* TcpStream::connect succeeds: the codecs are built, the handshake starts
ConnectOk ==
    /\ pc = "Disconnected"
    /\ pc' = "Handshaking"
    /\ presented' = None
    /\ received' = 0
    /\ open' = open + 1
    /\ UNCHANGED <<retry_timer, delays, conns, chan, entered, failed, config,
                   valVars, timerVars, nonceVars, chanVars>>

\* client_setup_encrypted_channel runs; Ok enters the receive loop after
\* retry_timer.reset(), an error takes the Err arm
Handshake(recv_res, send_res) ==
    /\ pc = "Handshaking"
    /\ LET r == Attempt(recv_res, send_res)
       IN  /\ Attempted(r)
           /\ presented' = r.pub_key
           /\ IF r.res = "Ok"
              THEN /\ pc' = "Connected"
                   /\ chan' = r.chan
                   /\ retry_timer' = run_on_ok(retry_timer)
                   /\ delays' = <<>>
                   /\ conns' = IF conns < MaxConns THEN conns + 1 ELSE conns
                   /\ UNCHANGED open
              ELSE /\ Fail
                   /\ open' = open - 1
                   /\ UNCHANGED conns
    /\ UNCHANGED <<received, entered, failed, nops, config, timerVars, nonceVars, chanVars>>

\* time::sleep(delay) is over: back to the top of the loop
Wake ==
    /\ pc = "Backoff"
    /\ pc' = "Disconnected"
    /\ entered' = "backoff"
    /\ UNCHANGED <<retry_timer, delays, presented, conns, received, chan, open, failed,
                   config, valVars, timerVars, nonceVars, chanVars>>

\* receiver.recv() returns a message, which is printed
RecvMsg ==
    /\ pc = "Connected"
    /\ received < MaxMsgs
    /\ received' = received + 1
    /\ UNCHANGED <<pc, retry_timer, delays, presented, conns, chan, open, entered, failed,
                   config, valVars, timerVars, nonceVars, chanVars>>

\* mutant: the error is logged and the receive loop goes on
RecvErr_KeepsReceiving ==
    /\ pc = "Connected"
    /\ failed' = failed \cup {chan[1]}
    /\ UNCHANGED <<pc, chan, open, entered, retry_timer, delays, presented, conns, received,
                   config, valVars, timerVars, nonceVars, chanVars>>

\* receiver.recv() fails: break out of the receive loop; the Ok arm ends, which
\* drops sender and receiver, and run() is at the top of its loop
RecvErr ==
    /\ pc = "Connected"
    /\ pc' = "Disconnected"
    /\ failed' = failed \cup {chan[1]}
    /\ chan' = None
    /\ open' = open - 1
    /\ entered' = "recv_err"
    /\ UNCHANGED <<retry_timer, delays, presented, conns, received, config,
                   valVars, timerVars, nonceVars, chanVars>>

(***************************************************************************)
(* Specifications                                                          *)
(***************************************************************************)
\* the channel parts a specification does not run
ChanIdle == SenderIdle /\ FrameIdle /\ SessIdle

Init == ChanIdle /\ TimerIdle /\ NonceIdle /\ ValInit /\ LoopInit
Next ==
    \/ ConnectFail
    \/ ConnectOk
    \/ \E recv_res \in RecvOutcomes, send_res \in SendOutcomes : Handshake(recv_res, send_res)
    \/ Wake
    \/ RecvMsg
    \/ RecvErr
Spec == Init /\ [][Next]_vars

InitSender == TimerIdle /\ NonceIdle /\ ValInit /\ LoopIdle /\ SenderInit /\ FrameIdle /\ SessIdle
NextSender == \E i \in 1..Len(Plaintexts) : SenderSend(Plaintexts[i])
SpecSender == InitSender /\ [][NextSender]_vars

InitFrame == TimerIdle /\ NonceIdle /\ ValInit /\ LoopIdle /\ SenderIdle /\ FrameInit /\ SessIdle
NextFrame ==
    \/ \E i \in 1..Len(FrameMsgs) : FrameSend(FrameMsgs[i])
    \/ \E n \in 1..Len(wire.bytes) : BufFill(n)
    \/ FrameRecv
    \/ \E k \in 0..Len(wire.bytes) : FrameClose(k)
SpecFrame == InitFrame /\ [][NextFrame]_vars

InitSession == TimerIdle /\ NonceIdle /\ ValInit /\ LoopIdle /\ SenderIdle /\ FrameIdle /\ SessInit
NextSession ==
    \/ ServerStart
    \/ ClientWaitEnds
    \/ ServerWaitEnds
    \/ \E i \in 1..Len(Plaintexts) : ClientSend(Plaintexts[i])
    \/ \E i \in 1..Len(Plaintexts) : ServerSend(Plaintexts[i])
    \/ ClientRecv
    \/ ServerRecv
SpecSession == InitSession /\ [][NextSession]_vars

\* the same with time passing: a handshake wait ends, with the frame or at
\* the deadline
SpecSessionFair ==
    SpecSession /\ WF_vars(ClientWaitEnds) /\ WF_vars(ServerWaitEnds)

\* the same with a server that closes the connection when it is done; the
\* connection delivers every frame once, unchanged and in order
NextReliable ==
    \/ ServerStart
    \/ ClientWaitEnds
    \/ ServerWaitEnds
    \/ \E i \in 1..Len(Plaintexts) : ClientSend(Plaintexts[i])
    \/ \E i \in 1..Len(Plaintexts) : ServerSend(Plaintexts[i])
    \/ ClientRecv
    \/ ServerRecv
    \/ ServerCloses
SpecReliable == InitSession /\ [][NextReliable]_vars

\* a server that sends, and a network that once loses a frame, delivers one
\* twice or exchanges two
NextNet ==
    \/ ServerStart
    \/ ClientWaitEnds
    \/ ServerWaitEnds
    \/ \E i \in 1..Len(Plaintexts) : ServerSendNet(Plaintexts[i])
    \/ ClientRecv
    \/ \E j \in 1..Len(SplitFrames(s2c.bytes)) : NetLoses(j)
    \/ \E j \in 1..Len(SplitFrames(s2c.bytes)) : NetDuplicates(j)
    \/ \E j \in 1..(Len(SplitFrames(s2c.bytes)) - 1) : NetSwaps(j)
SpecNet == InitSession /\ [][NextNet]_vars

\* a server that sends and closes, and a network that changes one byte
NextAttack ==
    \/ ServerStart
    \/ ClientWaitEnds
    \/ ServerWaitEnds
    \/ \E i \in 1..Len(Plaintexts) : ServerSend(Plaintexts[i])
    \/ ClientRecv
    \/ \E pos \in 1..Len(s2c.bytes) : \E val \in TamperVals(s2c.bytes[pos]) : Tamper(pos, val)
    \/ ServerCloses
SpecAttack == InitSession /\ [][NextAttack]_vars

\* run() with time passing: a sleep that was started ends
SpecLive == Init /\ [][Next]_vars /\ WF_vars(Wake)

InitHandshake == ChanIdle /\ TimerIdle /\ NonceIdle /\ ValInit /\ LoopIdle
NextHandshake ==
    \/ \E k \in Keys : Validate(k)
    \/ \E recv_res \in RecvOutcomes, send_res \in SendOutcomes :
          ClientHandshake(recv_res, send_res)
SpecHandshake == InitHandshake /\ [][NextHandshake]_vars

InitTimer == ChanIdle /\ TimerInit /\ NonceIdle /\ ValInit /\ LoopIdle
NextTimer == TimerNext \/ TimerReset
SpecTimer == InitTimer /\ [][NextTimer]_vars

InitNonce == ChanIdle /\ TimerIdle /\ ValInit /\ LoopIdle /\ \E init \in Seeds(SeedBytes, MaxNonceLen) : NonceStart(init)
NextNonce == NonceNextBounded
SpecNonce == InitNonce /\ [][NextNonce]_vars

InitPeriod == ChanIdle /\ TimerIdle /\ ValInit /\ LoopIdle /\ \E init \in Seeds(PeriodBytes, PeriodLen) : NonceStart(init)
NextPeriod == NonceNextPeriod
SpecPeriod == InitPeriod /\ [][NextPeriod]_vars

(***************************************************************************)
(* C1: once a validate() has accepted key K1, a later validate(K2) with    *)
(* K2 # K1 fails with ServerPublicKeyChanged and a later validate(K1)      *)
(* succeeds, whatever calls came in between.                               *)
(***************************************************************************)
C1_IdentityPinned ==
    (last.op = "validate" /\ last.fa_before # None) =>
        last.res = IF last.cand = last.fa_before THEN "Ok" ELSE "ServerPublicKeyChanged"

\* key 2 is rejected after key 1 was accepted and other calls were made
C1_Witness ==
    /\ last.op = "validate"
    /\ nops >= 3
    /\ last.fa_before = Some(1)
    /\ last.cand = Some(2)
    /\ last.res = "ServerPublicKeyChanged"

(***************************************************************************)
(* C2: the stored key is the first key that was accepted; once it is set   *)
(* no validate() and no handshake attempt changes it, and one that fails   *)
(* with ServerPublicKeyChanged leaves it as it was.                        *)
(***************************************************************************)
C2_StoredKeyNeverChanges ==
    /\ key_validator.key = firstAccepted
    /\ last.before.key # None => key_validator = last.before
    /\ last.res = "ServerPublicKeyChanged" => key_validator = last.before

\* a handshake presenting key 2 failed against the pinned key 1
C2_Witness ==
    /\ last.op = "handshake"
    /\ last.res = "ServerPublicKeyChanged"
    /\ last.cand = Some(2)
    /\ last.before.key = Some(1)
    /\ key_validator.key = Some(1)

(***************************************************************************)
(* C3 (as claimed): a client handshake attempt that ends in an error       *)
(* leaves the validator's stored key as it was before the attempt.         *)
(***************************************************************************)
C3_FailedHandshakeLeavesKey ==
    (last.op = "handshake" /\ last.res # "Ok") => key_validator = last.before

(***************************************************************************)
(* C4: with the identity check not bypassed, whenever run() is in its      *)
(* receive loop the key the server presented on the current connection is  *)
(* the key the validator accepted first in this run.                       *)
(***************************************************************************)
C4_IdentityContinuity ==
    (pc = "Connected" /\ ~config.bypass_pk_check) =>
        (firstAccepted # None /\ presented = firstAccepted)

\* connected again after a reconnect, after an attempt with another key failed
C4_Witness ==
    /\ pc = "Connected"
    /\ ~config.bypass_pk_check
    /\ conns = 2
    /\ presented = Some(2)
    /\ firstAccepted = Some(2)

(***************************************************************************)
(* C5 (as claimed): with bypass_pk_check enabled the handshake accepts any *)
(* server public key and the validator stores no key; with it disabled     *)
(* trust-on-first-use is enforced.                                         *)
(***************************************************************************)
C5_BypassAcceptsAnyKey ==
    /\ config.bypass_pk_check =>
          (key_validator.key = None /\ last.res # "ServerPublicKeyChanged")
    /\ ~config.bypass_pk_check =>
          (last.fa_before # None /\ last.cand # None /\ last.cand # last.fa_before
              => last.res = "ServerPublicKeyChanged")

(***************************************************************************)
(* C6: on a timer that was never reset, the n-th call to next()            *)
(* (n = 0, 1, ...) returned init_dur * 2^floor(n / flat) when flat > 0,    *)
(* and init_dur when flat = 0.                                             *)
(***************************************************************************)
NthDelay(flat, init_dur, n) ==
    IF flat > 0 THEN init_dur * Pow(2, n \div flat) ELSE init_dur

C7_ResetRestoresStart ==
    resets > 0 =>
        /\ timer.flat = timer_cfg.flat
        /\ timer.init_dur = timer_cfg.init_dur
        /\ returned = <<>> => timer = DoublingTimer_new(timer_cfg.flat, timer_cfg.init_dur)
        /\ returned = FreshDelays(timer_cfg.flat, timer_cfg.init_dur, Len(returned))

\* after a reset that followed next() calls, the test's sequence starts again
C7_Witness ==
    /\ resets = 2
    /\ timer_cfg = [flat |-> 2, init_dur |-> 1000]
    /\ returned = <<1000, 1000, 2000, 2000, 4000, 4000>>

(***************************************************************************)
(* C8: the delays slept since the last successful connection are           *)
(* non-decreasing and start at the initial delay; the timer is in its      *)
(* reset state whenever run() is connected, and is not in its reset state  *)
(* once an attempt has failed since.                                       *)
(***************************************************************************)
C8_BackoffStreak ==
    LET fresh == DoublingTimer_new(RetryFlat, RetryInitMs)
    IN  /\ \A i \in 1..(Len(delays) - 1) : delays[i] <= delays[i + 1]
        /\ delays # <<>> => delays[1] = RetryInitMs
        /\ pc = "Connected" => (retry_timer = fresh /\ delays = <<>>)
        /\ delays # <<>> => retry_timer # fresh
        /\ delays = <<>> => retry_timer = fresh

\* after a successful connection, a streak of failures reached the doubled delay
C8_Witness ==
    /\ conns >= 1
    /\ pc = "Backoff"
    /\ delays = <<1000, 1000, 1000, 1000, 1000, 2000>>

(***************************************************************************)
(* C9: inc_multibyte takes an n-byte array of big-endian value v to the    *)
(* big-endian encoding of (v + 1) mod 2^(8n), wrapping all-0xFF to         *)
(* all-0x00, and next() returns the value before the increment.            *)
(***************************************************************************)
C9_IncIsBigEndianSuccessor ==
    incs > 0 =>
        LET n == Len(prev[1])
            v == be_value(prev[1])
        IN  /\ Len(nonce.nonce) = n
            /\ nonce.nonce = be_bytes((v + 1) % Modulus(n), n)
            /\ be_value(nonce.nonce) = (v + 1) % Modulus(n)
            /\ ret = prev

\* a carry into the next byte has happened: [0x00,0xFF] -> [0x01,0x00]
C9_Witness ==
    /\ incs > 0
    /\ prev = Some(<<0, 255>>)
    /\ nonce.nonce = <<1, 0>>

(***************************************************************************)
(* C10: a counter of w = 8n bits is back at its seed after 2^w increments  *)
(* and after no smaller positive number of increments, and the k-th value  *)
(* next() returns is seed + (k - 1) mod 2^w, so that the 2^w values        *)
(* returned in one period are pairwise distinct.                           *)
(***************************************************************************)
C10_FullPeriod ==
    LET n == Len(seed)
    IN  /\ incs = Modulus(n) => nonce.nonce = seed
        /\ (0 < incs /\ incs < Modulus(n)) => nonce.nonce # seed
        /\ incs > 0 => ret = Some(be_bytes((be_value(seed) + incs - 1) % Modulus(n), n))

\* a two-byte counter that wrapped through all-0xFF is back at its seed
C10_Witness ==
    /\ seed = <<218, 218>>
    /\ incs = Modulus(2)
    /\ nonce.nonce = seed
    /\ ret = Some(<<218, 217>>)

(***************************************************************************)
(* C17: every client handshake attempt generates a new initializer pair;   *)
(* as long as the generator has not run out of unused values, no key and   *)
(* no starting nonce of one attempt's pair is in another attempt's pair,   *)
(* the channels run() holds are built from the latest attempt's pair, and  *)
(* run() holds no channel unless it is in its receive loop.                *)
(***************************************************************************)
PairKeys(pair) == {pair.cts.key, pair.stc.key}
PairNonces(pair) == {pair.cts.nonce, pair.stc.nonce}

C17_FreshMaterialPerAttempt ==
    /\ ~Exhausted(os_rng) =>
          /\ last.op = "handshake" => inits # <<>>
          /\ \A i, j \in 1..Len(inits) :
                i # j => /\ PairKeys(inits[i]) \cap PairKeys(inits[j]) = {}
                         /\ PairNonces(inits[i]) \cap PairNonces(inits[j]) = {}
          /\ chan # None =>
                chan[1] = [sender |-> AES256GCMMsgSender_new(inits[Len(inits)].cts),
                           receiver |-> AES256GCMMsgReceiver_new(inits[Len(inits)].stc)]
    /\ pc # "Connected" <=> chan = None

\* connected for the second time, on the third attempt's pair
C17_Witness ==
    /\ pc = "Connected"
    /\ conns = 2
    /\ Len(inits) = 3
    /\ ~Exhausted(os_rng)
    /\ chan # None

(***************************************************************************)
(* C18 (as claimed): run() is never at the top of its loop, about to open  *)
(* the next connection, straight from a failed recv() of its receive loop: *)
(* a backoff sleep has come in between.                                    *)
(***************************************************************************)
C18_BackoffAfterRecvError ==
    pc = "Disconnected" => entered # "recv_err"

(***************************************************************************)
(* C19: run() never returns: it is always connecting, in the handshake, in *)
(* its receive loop or asleep, it moves between these along the loop's     *)
(* edges only, it has one connection while in the handshake or the receive *)
(* loop and none otherwise, and after every failed attempt it comes back   *)
(* to connecting.                                                          *)
(***************************************************************************)
LoopStates == {"Disconnected", "Handshaking", "Connected", "Backoff"}

LoopEdges ==
    {<<"Disconnected", "Handshaking">>, <<"Disconnected", "Backoff">>,
     <<"Handshaking", "Connected">>, <<"Handshaking", "Backoff">>,
     <<"Backoff", "Disconnected">>, <<"Connected", "Disconnected">>}

C20_InitializerSentAfterValidation ==
    last.op = "handshake" =>
        /\ last.sent =>
              /\ last.cand # None
              /\ last.accepted = last.cand
              /\ last.frame # None
              /\ rsa_decrypt(RsaKeyPair(last.cand[1]).private, last.frame[1])
                    = Some(rkyv_to_bytes(last.sym_init[1]))
        /\ ~last.sent => (last.frame = None /\ last.out.bytes = <<>>)
        /\ last.res \in {"Timeout", "InvalidData", "ServerPublicKeyChanged"} => ~last.sent

\* the frame went out on a reconnection to the pinned key
C20_Witness ==
    /\ last.op = "handshake"
    /\ last.fa_before # None
    /\ last.res = "Ok"
    /\ last.sent
    /\ last.out.bytes # <<>>

(***************************************************************************)
(* C11 (as claimed): over any sequence of send calls on a sender, no two   *)
(* encryptions use the same key together with the same nonce.              *)
(***************************************************************************)
C11_NonceNeverReused == ~reused

(***************************************************************************)
(* C11 (amended): the first 2^(8n) send calls on a sender with an n-byte   *)
(* nonce use 2^(8n) distinct nonces with the sender's one key; every send  *)
(* after these uses a (key, nonce) pair that was used before.              *)
(***************************************************************************)
C11_NoReuseWithinPeriod ==
    /\ sends <= Modulus(ChanNonceLen) => (~reused /\ Cardinality(used) = sends)
    /\ sends > Modulus(ChanNonceLen) => reused
    /\ \A u \in used : u[1] = snd.key

\* a full period of sends without a reuse; the counter is back at its start
C11_Witness ==
    /\ sends = Modulus(ChanNonceLen)
    /\ ~reused
    /\ Cardinality(used) = Modulus(ChanNonceLen)
    /\ snd.nonce.nonce \in ChanSeeds

(***************************************************************************)
(* C14: on a stream that loses nothing, the bytes between sender and       *)
(* receiver are, for each message sent and not yet returned, its length as *)
(* 8 big-endian bytes followed by the message; the messages recv() has     *)
(* returned are the first messages sent, whole, unchanged and in order;    *)
(* and recv() returns a message as soon as one is waiting.                 *)
(***************************************************************************)
\* v written in base 256 on n digits, the last digit first
RECURSIVE Digits(_, _)
Digits(v, n) ==
    IF n = 0 THEN <<>>
    ELSE <<v % (U8_MAX + 1)>> \o Digits(v \div (U8_MAX + 1), n - 1)

\* the frame of a message: its length on 8 bytes, the most significant byte
\* first, then the message
WireForm(msg) ==
    LET d == Digits(Len(msg), U64_SIZE)
    IN  [i \in 1..U64_SIZE |-> d[U64_SIZE + 1 - i]] \o msg

\* the messages sent and not yet returned
Outstanding == SubSeq(sent_log, Len(delivered) + 1, Len(sent_log))

C14_FrameRoundTrip ==
    cut = 0 =>
        /\ Len(delivered) <= Len(sent_log)
        /\ delivered = SubSeq(sent_log, 1, Len(delivered))
        /\ rx_buf \o wire.bytes = Concat([i \in 1..Len(Outstanding) |-> WireForm(Outstanding[i])])
        /\ Outstanding # <<>> =>
              LenU64EncapsMsgReceiver_recv(rx_buf \o wire.bytes, wire.closed).kind = "Ok"
        /\ got.kind \in {"none", "Ok"} \/ (wire.closed /\ Outstanding = <<>>)

\* three messages, the first of them eight bytes that read as a length
\* prefix, came out one per recv()
C14_Witness ==
    /\ cut = 0
    /\ delivered = << <<0, 0, 0, 0, 0, 0, 0, 1>>, <<>>, <<7>> >>
    /\ rx_buf = <<>>
    /\ wire.bytes = <<>>

(***************************************************************************)
(* C15: a recv() fails exactly when the stream has closed with less than   *)
(* the 8-byte prefix, or less than the payload the prefix declares, left   *)
(* to read; a recv() that returns a message returns the whole payload of a *)
(* frame that had arrived whole, which is the message that was sent.       *)
(***************************************************************************)
\* whether the bytes start with a whole frame
WholeFrame(bytes) ==
    /\ Len(bytes) >= U64_SIZE
    /\ Len(bytes) - U64_SIZE >= be_value(SubSeq(bytes, 1, U64_SIZE))

C15_NoTruncatedPayload ==
    /\ got.kind = "Err" => (wire.closed /\ ~WholeFrame(got.avail))
    /\ got.kind = "Ok" =>
          /\ WholeFrame(got.avail)
          /\ Len(got.msg) = be_value(SubSeq(got.avail, 1, U64_SIZE))
          /\ got.msg = SubSeq(got.avail, U64_SIZE + 1, U64_SIZE + Len(got.msg))
          /\ got.msg = sent_log[Len(delivered)]
    /\ (wire.closed /\ ~WholeFrame(rx_buf \o wire.bytes)) =>
          LenU64EncapsMsgReceiver_recv(rx_buf \o wire.bytes, wire.closed).kind = "Err"

\* the stream closed in the middle of the second frame's payload: the first
\* message was returned, the recv() after it failed
C15_Witness ==
    /\ got.kind = "Err"
    /\ cut > 0
    /\ Len(got.avail) > U64_SIZE
    /\ Len(delivered) = 1

(***************************************************************************)
(* C12: once both handshakes have succeeded, on a connection that loses    *)
(* and changes nothing, the messages the server's receiver has returned    *)
(* are the first messages given to the client's sender, unchanged and in   *)
(* order, and the other way round; no recv() has failed; and a recv()      *)
(* returns as soon as a message of its direction is on its way, however    *)
(* the sends and receives of the two directions interleave.                *)
(***************************************************************************)
C12_MessagesArriveInOrder ==
    (client.pc = "Up" /\ server.pc = "Up") =>
        /\ Len(s_log) <= Len(c_sent)
        /\ s_log = SubSeq(c_sent, 1, Len(s_log))
        /\ Len(c_log) <= Len(s_sent)
        /\ c_log = SubSeq(s_sent, 1, Len(c_log))
        /\ c_last.res \in {"none", "Ok"}
        /\ s_last.res \in {"none", "Ok"}
        /\ Len(s_log) < Len(c_sent) =>
              LenU64EncapsMsgReceiver_recv(c2s.bytes, c2s.closed).kind = "Ok"
        /\ Len(c_log) < Len(s_sent) =>
              LenU64EncapsMsgReceiver_recv(s2c.bytes, s2c.closed).kind = "Ok"

\* two messages went each way and arrived
C12_Witness ==
    /\ client.pc = "Up"
    /\ server.pc = "Up"
    /\ c_sent = << <<72, 105>>, <<>> >>
    /\ s_log = c_sent
    /\ s_sent = << <<72>>, <<72, 105>> >>
    /\ c_log = s_sent

(***************************************************************************)
(* C13 (as claimed): when a byte of a frame on its way to the client was   *)
(* changed in transit, the recv() that consumes that frame fails with      *)
(* DecryptionError.                                                        *)
(***************************************************************************)
C13_TamperedFrameFailsDecryption ==
    c_last.changed \in {"prefix", "payload"} => c_last.res = "DecryptionError"

(***************************************************************************)
(* C16: a handshake wait ends: the client does not stay in its wait for    *)
(* the public key, nor the server in its wait for the initializer pair.    *)
(* A wait that ends at the deadline, the frame not being there, makes the  *)
(* handshake fail with Timeout, the party holding no channel pair; nothing *)
(* else ends a handshake with Timeout.                                     *)
(***************************************************************************)
TimeoutAtDeadlineOnly(party) ==
    /\ party.waited = "Elapsed" <=> party.res = "Timeout"
    /\ party.res = "Timeout" => (party.pc = "Failed" /\ party.chan = None)

C16_HandshakeWaitBounded ==
    /\ (client.pc = "Wait") ~> (client.pc # "Wait")
    /\ (server.pc = "Wait") ~> (server.pc # "Wait")
    /\ [](TimeoutAtDeadlineOnly(client) /\ TimeoutAtDeadlineOnly(server))

\* the server never sent its key and the client's handshake timed out
C16_Witness ==
    /\ server.pc = "Start"
    /\ s2c.bytes = <<>>
    /\ client.res = "Timeout"
    /\ client.chan = None

(***************************************************************************)
(* C25: in every state new(), next() and reset() lead to, a timer with     *)
(* flat > 0 has 1 <= rem <= flat, so that the decrement in next() does not *)
(* take the unsigned countdown below zero; a timer with flat = 0 has       *)
(* rem = 0 and next() leaves it alone; flat and init_dur are as they were  *)
(* constructed.                                                            *)
(***************************************************************************)
C25_CountdownInRange ==
    /\ timer.flat = timer_cfg.flat
    /\ timer.init_dur = timer_cfg.init_dur
    /\ timer.flat > 0 => (1 <= timer.rem /\ timer.rem <= timer.flat)
    /\ timer.flat > 0 => DoublingTimer_next(timer).timer.rem \in 1..timer.flat
    /\ timer.flat = 0 => (timer.rem = 0 /\ DoublingTimer_next(timer).timer = timer)

\* after a reset, the countdown was reloaded twice and is counting down again
C25_Witness ==
    /\ timer_cfg.flat = 3
    /\ resets = 1
    /\ Len(returned) = 7
    /\ timer.rem = 2
    /\ timer.cur_dur = 4 * timer.init_dur

(***************************************************************************)
(* C21: when the client's and the server's handshake have both succeeded,  *)
(* the client's sender and the server's receiver hold the key and started  *)
(* at the nonce of the cts initializer the client generated, the client's  *)
(* receiver and the server's sender those of the stc initializer; and a    *)
(* step that moves the counter of a party's sender leaves the counter of   *)
(* its receiver where it was, and the other way round.                     *)
(***************************************************************************)
\* the initializer pair the client of the session generates
SessionPair == AES256GCMInitializerPair_new_rand(0).pair

\* the nonce a counter started at, k calls of next() ago
StartOf(counter, k) ==
    LET n == Len(counter.nonce)
    IN  be_bytes((be_value(counter.nonce) + k * (Modulus(n) - 1)) % Modulus(n), n)

\* the two ends of a direction hold the initializer's key and started at its
\* nonce, the sending end having made `out` and the receiving end `in` calls
SameDirection(sender, receiver, init, out, in) ==
    /\ sender.key = init.key
    /\ receiver.key = init.key
    /\ StartOf(sender.nonce, out) = init.nonce
    /\ StartOf(receiver.nonce, in) = init.nonce

\* a step in which one of a party's two counters moves leaves its other one
SeparateCounters(party, party_next) ==
    (party.chan # None /\ party_next.chan # None) =>
        \/ party_next.chan[1].sender = party.chan[1].sender
        \/ party_next.chan[1].receiver = party.chan[1].receiver

C21_DirectionsAgree ==
    /\ []((client.pc = "Up" /\ server.pc = "Up") =>
            /\ SameDirection(client.chan[1].sender, server.chan[1].receiver,
                             SessionPair.cts, Len(c_sent), Len(s_log))
            /\ SameDirection(server.chan[1].sender, client.chan[1].receiver,
                             SessionPair.stc, Len(s_sent), Len(c_log)))
    /\ [][SeparateCounters(client, client') /\ SeparateCounters(server, server')]_vars

\* both are up; the client has sent twice and received nothing, the server
\* has received one of the two and sent one
C21_Witness ==
    /\ client.pc = "Up"
    /\ server.pc = "Up"
    /\ Len(c_sent) = 2
    /\ Len(s_log) = 1
    /\ Len(s_sent) = 1
    /\ Len(c_log) = 0
    /\ client.chan[1].sender.nonce # server.chan[1].receiver.nonce
    /\ client.chan[1].receiver.nonce = AESGCMNonceCounter_new(SessionPair.stc.nonce)

(***************************************************************************)
(* C24: on a connection that delivers every frame once, unchanged and in   *)
(* order, the k-th send of a sender draws the k-th nonce counted from the  *)
(* initializer's, the k-th frame the paired receiver decrypts is decrypted *)
(* with the nonce the k-th send drew, every frame read is decrypted, and a *)
(* recv() that fails with IoError has drawn no nonce and leaves the        *)
(* receiver's counter where it was.                                        *)
(***************************************************************************)
\* the k-th nonce of a counter that started at init
NthNonce(init, k) ==
    LET n == Len(init)
    IN  be_bytes((be_value(init) + k - 1) % Modulus(n), n)

\* the draws of a direction's two ends: enc by its sender, dec by its receiver
LockStep(init, enc, dec) ==
    /\ \A k \in 1..Len(enc) : enc[k] = NthNonce(init, k)
    /\ Len(dec) <= Len(enc)
    /\ \A k \in 1..Len(dec) : dec[k] = enc[k]

\* a counter that has handed out the nonces of log, and nothing else
CounterAfter(counter, init, log) == counter.nonce = NthNonce(init, Len(log) + 1)

C24_NonceLockStep ==
    /\ LockStep(SessionPair.cts.nonce, drawn.c_snd, drawn.s_rcv)
    /\ LockStep(SessionPair.stc.nonce, drawn.s_snd, drawn.c_rcv)
    /\ client.chan # None =>
          /\ CounterAfter(client.chan[1].sender.nonce, SessionPair.cts.nonce, drawn.c_snd)
          /\ CounterAfter(client.chan[1].receiver.nonce, SessionPair.stc.nonce, drawn.c_rcv)
    /\ server.chan # None =>
          /\ CounterAfter(server.chan[1].sender.nonce, SessionPair.stc.nonce, drawn.s_snd)
          /\ CounterAfter(server.chan[1].receiver.nonce, SessionPair.cts.nonce, drawn.s_rcv)
    /\ Len(drawn.c_rcv) = Len(c_log)
    /\ Len(drawn.s_rcv) = Len(s_log)
    /\ c_last.res = "IoError" <=> (c_last.res # "none" /\ c_last.nonce = None)
    /\ s_last.res = "IoError" <=> (s_last.res # "none" /\ s_last.nonce = None)

\* the server sent two messages and closed; the client read both, and its
\* next recv() met the end of the stream; a send of the client failed
C24_Witness ==
    /\ server.pc = "Closed"
    /\ c_last.res = "IoError"
    /\ Len(drawn.s_snd) = 2
    /\ drawn.c_rcv = drawn.s_snd
    /\ Len(drawn.c_snd) > Len(c_sent)
    /\ Len(drawn.s_rcv) = 1

(***************************************************************************)
(* C22 (as claimed): once the network has lost a frame, delivered one      *)
(* twice or exchanged two, the recv() that reads the first frame out of    *)
(* place fails with DecryptionError, and so does every recv() after it.    *)
(***************************************************************************)
\* the number of frames the client's receiver has read
FramesRead == Len(drawn.c_rcv)

C22_DisturbanceDesynchronizesForever ==
    (net.kind # "none" /\ FramesRead >= net.at) => c_last.res = "DecryptionError"

(***************************************************************************)
(* C22 (amended): the k-th recv() of a receiver that reads a frame returns *)
(* the k-th message sent when that frame is the ciphertext of the k-th     *)
(* send, and fails with DecryptionError when it is any other; either way   *)
(* the receiver's counter moves on by one.  So after a lost frame or one   *)
(* delivered twice, the recv() of the first frame out of place and every   *)
(* recv() after it fail with DecryptionError, while after two frames were  *)
(* exchanged the recv()s of these two fail and the recv()s after them      *)
(* succeed again.                                                          *)
(***************************************************************************)
\* the ciphertext of the server's k-th send
SentCiphertext(k) ==
    aead_encrypt(SessionPair.stc.key, NthNonce(SessionPair.stc.nonce, k), s_sent[k])

\* the frame the client's receiver read last is the one sent in its place
InPlace ==
    /\ FramesRead <= Len(s_sent)
    /\ c_last.frame = SentCiphertext(FramesRead)

C22_OutOfPlaceFramesFail ==
    /\ c_last.res \in {"none", "Ok", "DecryptionError"}
    /\ c_last.res = "none" <=> FramesRead = 0
    /\ c_last.res = "Ok" =>
          (InPlace /\ c_last.msg = Some(s_sent[FramesRead]))
    /\ c_last.res = "DecryptionError" => ~InPlace
    /\ client.chan # None =>
          CounterAfter(client.chan[1].receiver.nonce, SessionPair.stc.nonce, drawn.c_rcv)
    /\ (net.kind = "none" \/ FramesRead < net.at) => c_last.res # "DecryptionError"
    /\ (net.kind \in {"loss", "dup"} /\ FramesRead >= net.at) =>
          c_last.res = "DecryptionError"
    /\ (net.kind = "swap" /\ FramesRead \in {net.at, net.at + 1}) =>
          c_last.res = "DecryptionError"
    /\ (net.kind = "swap" /\ FramesRead > net.at + 1) => c_last.res = "Ok"

\* the first two frames were exchanged: two recv()s failed, the third
\* returned the third message
C22_Witness ==
    /\ net = [kind |-> "swap", at |-> 1]
    /\ FramesRead = 3
    /\ c_last.res = "Ok"
    /\ c_log = <<s_sent[3]>>

(***************************************************************************)
(* C23: a recv() error in the receive loop ends the connection: run()      *)
(* drops the channel pair and the stream and is at the top of its loop.    *)
(* run() holds a channel pair only in its receive loop, never one whose    *)
(* receiver has returned an error, and delivers messages from the pair it  *)
(* holds only; a pair it comes to hold was built by a handshake that       *)
(* succeeded on a connection opened after the error.                       *)
(***************************************************************************)
\* the channel pair run() holds is not one whose receiver returned an error
\* (pairs are told apart by their keys while the generator has unused values)
Unfailed == (chan # None /\ ~Exhausted(os_rng)) => chan[1] \notin failed

\* the channel pair a handshake that generated the pair sym_init returns
BuiltFrom(sym_init) ==
    [sender |-> AES256GCMMsgSender_new(sym_init.cts),
     receiver |-> AES256GCMMsgReceiver_new(sym_init.stc)]

C23_NoRecvAfterError ==
    /\ [](pc = "Connected" <=> chan # None)
    /\ [](pc = "Connected" => open = 1)
    /\ []Unfailed
    /\ [][failed' # failed =>
            (pc' = "Disconnected" /\ chan' = None /\ open' = 0)]_vars
    /\ [][received' = received + 1 =>
            (pc = "Connected" /\ chan # None /\ chan' = chan /\ Unfailed)]_vars
    /\ [][(pc' = "Handshaking" /\ pc # "Handshaking") =>
            (pc = "Disconnected" /\ chan = None /\ open = 0 /\ open' = 1
                /\ received' = 0)]_vars
    /\ [][(chan' # None /\ chan' # chan) =>
            (pc = "Handshaking" /\ chan = None /\ last'.op = "handshake"
                /\ last'.res = "Ok" /\ chan'[1] = BuiltFrom(last'.sym_init[1]))]_vars

\* a second connection delivers messages after the first one's recv() failed
C23_Witness ==
    /\ pc = "Connected"
    /\ failed # {}
    /\ conns = 2
    /\ received = 2
    /\ ~Exhausted(os_rng)
    /\ chan[1] \notin failed

====
